---- MODULE Spec2Model ----
(***************************************************************************)
(* postProcess.py: MagComPy CSV -> block reduction -> biharmonic spline    *)
(* grid -> reduction to pole -> GeoTIFF.  The script is one straight line  *)
(* of statements; every statement group is one action, and an exception    *)
(* raised by a statement ends the run (pc = "failed").                     *)
(*                                                                         *)
(* Lengths are in metres, field values in nT.  The sample coordinates and  *)
(* field readings the model draws are such that every median the script    *)
(* takes is an integer (even coordinates, odd readings: the mean of the    *)
(* two middle values is exact), so integer arithmetic is exact here.       *)
(***************************************************************************)
EXTENDS Integers, Sequences, FiniteSets, TLC

VARIABLES
    csv,          \* the file dir+data: <<>> when it cannot be read, else <<rows>>
    tieLow,       \* the KD-tree's pick between two equidistant block centres
    pc,           \* the statement the script is at
    ran,          \* the stages completed so far, in order
    data,         \* the DataFrame read from the CSV (a sequence of rows)
    fieldCalc,    \* <<>> or <<[inclination, declination, totalIntensity]>>
    coordinates,  \* block-reduced (east, north) pairs, in block-label order
    magField,     \* block-reduced anomaly values, in block-label order
    region,       \* <<W, E, S, N>> of the padded region, <<>> before
    grid_full,    \* spline.grid's output; row 1 is the southernmost row
    grid,         \* grid_full after distance_mask
    nanBranch,    \* "none" before line 152, then "fill" or "copy"
    filled,       \* the input of reduction_to_pole
    rtp_grid,     \* the output of reduction_to_pole
    gridReduced,  \* rtp_grid after distance_mask
    reducedMag,   \* np.flipud(np.squeeze(gridReduced.values))
    raster        \* <<>> or <<the GeoTIFF written>>

vars == <<csv, tieLow, pc, ran, data, fieldCalc, coordinates,
          magField, region, grid_full, grid, nanBranch, filled, rtp_grid,
          gridReduced, reducedMag, raster>>

inputs == <<csv, tieLow>>

(***************************************************************************)
(* Script constants.                                                       *)
(***************************************************************************)
Offset == 48925
spacingBlock == 5
padDist == 50
gridSpacing == 1
maxdist == 20
\* np.nan: a value outside the range of every field value of the model
NaN == -1000000

\* the WMM answer for the site and date of the script (lines 58-61, rounded
\* from the values the script's comments record)
inclinationSite == 66
declinationSite == 2
totalIntensitySite == 48925

(***************************************************************************)
(* Bounds of the model.                                                    *)
(***************************************************************************)
\* rows of the CSV in the block-reduction specification
MaxRows == 3
\* rows of the CSV in the pipeline specification
MaxSurvey == 2

\* eastings, northings and readings of the rows the block-reduction
\* specification draws: an extent of 4 m is one block, one of 8 m two blocks
\* of 4 m (a point at 4 is then equidistant from both centres), one of 12 m
\* two blocks of 6 m
EastSet == {0, 4, 8}
NorthSet == {0, 12}
FieldSet == {48925, 48931}
SampleSet == [x : EastSet, y : NorthSet, b : FieldSet]

\* the rows the pipeline specification draws its CSV from (in file order):
\* rows 1 and 2 share one block, rows 1 and 3 lie in two blocks of a
\* region that is wider than high, row 2 is equidistant from both
SurveyRows ==
    << [x |-> 0, y |-> 0, b |-> 48925],
       [x |-> 6, y |-> 6, b |-> 48931],
       [x |-> 12, y |-> 6, b |-> 48927] >>

(***************************************************************************)
(* Arithmetic helpers.                                                     *)
(***************************************************************************)
Abs(a) == IF a < 0 THEN -a ELSE a

\* Python's round(a / b) for a >= 0, b > 0: halves go to the even integer
RoundDiv(a, b) ==
    LET q == a \div b
        r == a % b
    IN  IF 2 * r < b THEN q
        ELSE IF 2 * r > b THEN q + 1
        ELSE IF q % 2 = 0 THEN q ELSE q + 1

SeqMin(s) == CHOOSE m \in {s[i] : i \in DOMAIN s} : \A i \in DOMAIN s : m <= s[i]
SeqMax(s) == CHOOSE m \in {s[i] : i \in DOMAIN s} : \A i \in DOMAIN s : m >= s[i]

\* the elements of a finite set of integers in ascending order
RECURSIVE Ascending(_)
Ascending(S) ==
    IF S = {} THEN <<>>
    ELSE LET m == CHOOSE x \in S : \A y \in S : x <= y
         IN  <<m>> \o Ascending(S \ {m})

(***************************************************************************)
(* np.median of a non-empty sequence of integers (line 97, reduction=).    *)
(***************************************************************************)
\* (a median that takes the lower middle value of an even count)
MedianLowerMiddle(s) ==
    LET t == SortSeq(s, LAMBDA a, b : a < b)
    IN  t[(Len(t) + 1) \div 2]

Median(s) ==
    LET t == SortSeq(s, LAMBDA a, b : a < b)
        n == Len(t)
    IN  IF n % 2 = 1 THEN t[(n + 1) \div 2]
        ELSE (t[n \div 2] + t[n \div 2 + 1]) \div 2

(***************************************************************************)
(* vd.BlockReduce(reduction=np.median, spacing=5).filter (lines 96-98).    *)
(* The blocks are verde's: the bounding box of the points is split, along  *)
(* each axis, in round(extent / spacing) equal blocks (adjust="spacing"),  *)
(* and a point belongs to the block whose centre is nearest to it.         *)
(***************************************************************************)
Easts(rows) == [i \in DOMAIN rows |-> rows[i].x]
Norths(rows) == [i \in DOMAIN rows |-> rows[i].y]

\* blocks along an axis of extent len
BlockCount(len) == RoundDiv(len, spacingBlock)

\* the index (0-based) of the block of x on an axis [lo, lo + len] cut in n
\* blocks: the centre of block k is lo + (2k + 1) * len / (2n)
BlockIndex(x, lo, len, n, low) ==
    LET dist(k) == Abs(2 * n * (x - lo) - (2 * k + 1) * len)
        best == {k \in 0..(n - 1) : \A j \in 0..(n - 1) : dist(k) <= dist(j)}
    IN  IF low THEN CHOOSE k \in best : \A j \in best : k <= j
        ELSE CHOOSE k \in best : \A j \in best : k >= j

\* whether verde can split the points at all: no rows, or an axis whose
\* extent rounds to zero blocks, raises
CanSplit(rows) ==
    /\ Len(rows) > 0
    /\ BlockCount(SeqMax(Easts(rows)) - SeqMin(Easts(rows))) > 0
    /\ BlockCount(SeqMax(Norths(rows)) - SeqMin(Norths(rows))) > 0

\* the block label of every row: north index * blocks east + east index
BlockLabels(rows, low) ==
    LET w == SeqMin(Easts(rows))
        s == SeqMin(Norths(rows))
        le == SeqMax(Easts(rows)) - w
        ln == SeqMax(Norths(rows)) - s
        ne == BlockCount(le)
        nn == BlockCount(ln)
    IN  [i \in DOMAIN rows |->
            BlockIndex(rows[i].y, s, ln, nn, low) * ne
              + BlockIndex(rows[i].x, w, le, ne, low)] \o <<>>

\* the members of seq (in order) whose row has the label
RECURSIVE MembersFrom(_, _, _, _)
MembersFrom(seq, labels, label, i) ==
    IF i > Len(seq) THEN <<>>
    ELSE (IF labels[i] = label THEN <<seq[i]>> ELSE <<>>)
           \o MembersFrom(seq, labels, label, i + 1)

\* data[fieldCompute] - 48925
Anomaly(rows) == [i \in DOMAIN rows |-> rows[i].b - Offset]

\* the reduced values, one per occupied block, in label order
ReduceValues(rows, low) ==
    LET labels == BlockLabels(rows, low)
        occupied == Ascending({labels[i] : i \in DOMAIN labels})
    IN  [k \in DOMAIN occupied |->
            Median(MembersFrom(Anomaly(rows), labels, occupied[k], 1))] \o <<>>

\* (no reduction of the coordinates)
ReduceCoordinatesKeepAll(rows, low) == [i \in DOMAIN rows |-> <<rows[i].x, rows[i].y>>]

\* the reduced coordinates (center_coordinates=False: the median easting and
\* the median northing of the block's points)
ReduceCoordinates(rows, low) ==
    LET labels == BlockLabels(rows, low)
        occupied == Ascending({labels[i] : i \in DOMAIN labels})
    IN  [k \in DOMAIN occupied |->
            << Median(MembersFrom(Easts(rows), labels, occupied[k], 1)),
               Median(MembersFrom(Norths(rows), labels, occupied[k], 1)) >>] \o <<>>

(***************************************************************************)
(* Grids.  A grid is a sequence of rows, row 1 the southernmost, each a    *)
(* sequence of cells, cell 1 the westernmost: the layout of the array      *)
(* verde returns (the names the script gives the two dimensions, line 133, *)
(* do not move any value).                                                 *)
(***************************************************************************)
Rows(g) == Len(g)
Cols(g) == Len(g[1])

\* vd.get_region
GetRegion(points) ==
    LET es == [i \in DOMAIN points |-> points[i][1]]
        ns == [i \in DOMAIN points |-> points[i][2]]
    IN  <<SeqMin(es), SeqMax(es), SeqMin(ns), SeqMax(ns)>>

\* vd.pad_region
PadRegion(reg, pad) == <<reg[1] - pad, reg[2] + pad, reg[3] - pad, reg[4] + pad>>

\* the number of grid lines verde lays over [lo, hi] at the spacing asked
\* for (adjust="spacing"): round(extent / spacing) + 1
GridLines(lo, hi) == RoundDiv(hi - lo, gridSpacing) + 1

\* the easting of column c and the northing of row r (np.linspace over the
\* region); exact, since the regions of the model have integer extents
EastOf(reg, c) ==
    reg[1] + ((c - 1) * (reg[2] - reg[1])) \div (GridLines(reg[1], reg[2]) - 1)
NorthOf(reg, r) ==
    reg[3] + ((r - 1) * (reg[4] - reg[3])) \div (GridLines(reg[3], reg[4]) - 1)

\* (a mask that drops the nodes at exactly maxdist)
NearStrict(x, y, points) ==
    \E i \in DOMAIN points :
        (x - points[i][1]) * (x - points[i][1])
          + (y - points[i][2]) * (y - points[i][2]) < maxdist * maxdist

\* whether the node at (x, y) is within maxdist of one of the points
Near(x, y, points) ==
    \E i \in DOMAIN points :
        (x - points[i][1]) * (x - points[i][1])
          + (y - points[i][2]) * (y - points[i][2]) <= maxdist * maxdist

HasNaN(g) == \E r \in DOMAIN g : \E c \in DOMAIN g[r] : g[r][c] = NaN

\* The values spline.grid predicts come from verde's least-squares fit,
\* which is outside the script: the model draws the predicted surface from
\* a family that varies along both axes, and the cells (if any) where the
\* prediction is not a number from HoleKinds.
SurfaceKinds == {1, 2}
HoleKinds == {"none", "near", "far", "all"}

Surface(kind, r, c) == 2 * ((kind * r + c) % 5)

IsHole(hole, reg, points, r, c) ==
    CASE hole = "none" -> FALSE
      [] hole = "near" -> EastOf(reg, c) = points[1][1] /\ NorthOf(reg, r) = points[1][2]
      [] hole = "far" -> r = 1 /\ c = 1
      [] hole = "all" -> TRUE

\* spline.grid(region=region, spacing=1, ...)
SplineGrid(reg, points, kind, hole) ==
    [r \in 1..GridLines(reg[3], reg[4]) |->
        [c \in 1..GridLines(reg[1], reg[2]) |->
            IF IsHole(hole, reg, points, r, c) THEN NaN ELSE Surface(kind, r, c)]]

\* (no mask at all)
DistanceMaskNone(points, g, reg) == g

\* vd.distance_mask(coordinates, maxdist=20, grid=g): grid.where(distance <= maxdist)
DistanceMask(points, g, reg) ==
    LET north == [r \in DOMAIN g |-> NorthOf(reg, r)] \o <<>>  \* as sequences
        east == [c \in DOMAIN g[1] |-> EastOf(reg, c)] \o <<>>
    IN  [r \in DOMAIN g |->
            [c \in DOMAIN g[r] |->
                IF Near(east[c], north[r], points) THEN g[r][c] ELSE NaN]]

\* the values of the cells of g that are numbers
Numbers(g) == UNION {{g[r][c] : c \in DOMAIN g[r]} : r \in DOMAIN g} \ {NaN}

\* how many cells of rows r.. of g are numbers not above v
RECURSIVE CountAtMost(_, _, _)
CountAtMost(g, v, r) ==
    IF r > Len(g) THEN 0
    ELSE Cardinality({c \in DOMAIN g[r] : g[r][c] # NaN /\ g[r][c] <= v})
           + CountAtMost(g, v, r + 1)

\* the k-th smallest (k = 1, 2, ..) of the cells of g that are numbers
KthSmallest(g, k) ==
    LET atMost == [v \in Numbers(g) |-> CountAtMost(g, v, 1)]
    IN  CHOOSE v \in DOMAIN atMost :
            atMost[v] >= k /\ \A u \in DOMAIN atMost : atMost[u] >= k => v <= u

\* np.nanmedian of the grid: the median of its cells that are numbers (NaN
\* when there is none)
NanMedian(g) ==
    LET nums == Numbers(g)
        n == CountAtMost(g, CHOOSE v \in nums : \A u \in nums : u <= v, 1)
    IN  IF nums = {} THEN NaN
        ELSE IF n % 2 = 1 THEN KthSmallest(g, (n + 1) \div 2)
        ELSE (KthSmallest(g, n \div 2) + KthSmallest(g, n \div 2 + 1)) \div 2

\* grid_full.total_field_anomaly.fillna(np.nanmedian(...))
FillNa(g) ==
    LET m == NanMedian(g)
    IN  [r \in DOMAIN g |-> [c \in DOMAIN g[r] |-> IF g[r][c] = NaN THEN m ELSE g[r][c]]]

\* grid_full.isnull().any() is an xarray Dataset holding one boolean per
\* data variable, and the truth value of a Dataset (what `if` tests) is
\* whether it has data variables, not what they hold.
IsNullAny(g) == [total_field_anomaly |-> HasNaN(g)]
Truth(dataset) == DOMAIN dataset # {}

\* the test of line 152
FillTest(g) == Truth(IsNullAny(g))

\* hc.reduction_to_pole is a filter applied in the frequency domain, that
\* is a circular convolution of the grid; its kernel is outside the script.
\* The model takes a kernel over a cell and its northern and eastern
\* neighbours that is the identity at the pole (inclination 90,
\* declination 0) and keeps a constant grid constant.
Wrap(i, n) == IF i > n THEN 1 ELSE i

ReductionToPole(g, inc, dec) ==
    [r \in DOMAIN g |->
        [c \in DOMAIN g[r] |->
            g[r][c] + (90 - inc) * (g[Wrap(r + 1, Len(g))][c] - g[r][c])
                    + dec * (g[r][Wrap(c + 1, Len(g[r]))] - g[r][c])]]

\* (a flip along the easting axis)
FlipLR(g) == [r \in DOMAIN g |-> [c \in DOMAIN g[r] |-> g[r][Len(g[r]) + 1 - c]]]

\* np.flipud(np.squeeze(reducedMag))
FlipUD(g) == [r \in DOMAIN g |-> g[Len(g) + 1 - r]]

\* (a transform anchored at the bottom-left corner)
FromBoundsBottomLeft(west, south, east, north, width, height) ==
    [a |-> <<east - west, width>>, e |-> <<north - south, height>>,
     c |-> west, f |-> south]

\* rasterio.transform.from_bounds: Affine.translation(west, north) *
\* Affine.scale((east - west) / width, (south - north) / height); a and e
\* are kept as <<numerator, denominator>>
FromBounds(west, south, east, north, width, height) ==
    [a |-> <<east - west, width>>, e |-> <<south - north, height>>,
     c |-> west, f |-> north]

(***************************************************************************)
(* The script, statement by statement.                                     *)
(***************************************************************************)
Steps == <<"load", "query", "reduce", "grid", "mask", "fill", "rtp", "remask",
           "flip", "write">>

\* what follows a step that completed
After(step) ==
    LET i == CHOOSE k \in DOMAIN Steps : Steps[k] = step
    IN  IF i = Len(Steps) THEN "done" ELSE Steps[i + 1]

\* (an exception that is swallowed: the script goes on)
RaiseSwallowed(step) == After(step)

\* An exception is caught nowhere in the script: it ends the run.
Raise(step) == "failed"

\* (a failed request that is swallowed)
CalculateSwallowed(step) == After(step)

\* ... and so does a failure of lines 73-84.
CalculateRaise(step) == "failed"

Completed(step) ==
    /\ pc' = After(step)
    /\ ran' = Append(ran, step)

Failed(step) ==
    /\ pc' = Raise(step)
    /\ ran' = ran

\* line 71: data = pd.read_csv(dir+data, sep=';')
ReadCsv ==
    /\ pc = "load"
    /\ IF csv = <<>>
       THEN Failed("load") /\ data' = data
       ELSE Completed("load") /\ data' = csv[1]
    /\ UNCHANGED <<inputs, fieldCalc, coordinates, magField, region, grid_full,
                   grid, nanBranch, filled, rtp_grid, gridReduced, reducedMag,
                   raster>>

\* lines 73-84: the web request and the three values read from its answer.
\* The request fails ("error"), or its answer lacks a key the script reads
\* ("malformed"), or it gives the three values.
Calculate ==
    /\ pc = "query"
    /\ \E answer \in {"error", "malformed", "ok"} :
          IF answer = "ok"
          THEN /\ Completed("query")
               /\ fieldCalc' = <<[inclination |-> inclinationSite,
                                  declination |-> declinationSite,
                                  totalIntensity |-> totalIntensitySite]>>
          ELSE /\ pc' = CalculateRaise("query")
               /\ ran' = ran
               /\ fieldCalc' = fieldCalc
    /\ UNCHANGED <<inputs, data, coordinates, magField, region, grid_full,
                   grid, nanBranch, filled, rtp_grid, gridReduced, reducedMag,
                   raster>>

\* lines 96-100: coordinates, magField = reducer.filter(...)
BlockReduce ==
    /\ pc = "reduce"
    /\ IF CanSplit(data)
       THEN /\ Completed("reduce")
            /\ coordinates' = ReduceCoordinates(data, tieLow)
            /\ magField' = ReduceValues(data, tieLow)
       ELSE /\ Failed("reduce")
            /\ UNCHANGED <<coordinates, magField>>
    /\ UNCHANGED <<inputs, data, fieldCalc, region, grid_full, grid, nanBranch,
                   filled, rtp_grid, gridReduced, reducedMag, raster>>

\* lines 115-135: spline.fit, region = pad_region(get_region(...), 50),
\* grid_full = spline.grid(...)
SplineFitGrid ==
    /\ pc = "grid"
    /\ \E kind \in SurfaceKinds, hole \in HoleKinds :
          LET reg == PadRegion(GetRegion(coordinates), padDist)
          IN  /\ region' = reg
              /\ grid_full' = SplineGrid(reg, coordinates, kind, hole)
    /\ Completed("grid")
    /\ UNCHANGED <<inputs, data, fieldCalc, coordinates, magField, grid,
                   nanBranch, filled, rtp_grid, gridReduced, reducedMag, raster>>

\* lines 137-138: grid = vd.distance_mask(coordinates, maxdist=20, grid=grid_full)
MaskGrid ==
    /\ pc = "mask"
    /\ grid' = DistanceMask(coordinates, grid_full, region)
    /\ Completed("mask")
    /\ UNCHANGED <<inputs, data, fieldCalc, coordinates, magField, region,
                   grid_full, nanBranch, filled, rtp_grid, gridReduced,
                   reducedMag, raster>>

\* lines 152-156
FillNaN ==
    /\ pc = "fill"
    /\ IF FillTest(grid_full)
       THEN nanBranch' = "fill" /\ filled' = FillNa(grid_full)
       ELSE nanBranch' = "copy" /\ filled' = grid_full
    /\ Completed("fill")
    /\ UNCHANGED <<inputs, data, fieldCalc, coordinates, magField, region,
                   grid_full, grid, rtp_grid, gridReduced, reducedMag, raster>>

\* line 158: harmonica raises ValueError on a grid with a NaN
ReduceToPole ==
    /\ pc = "rtp"
    /\ IF HasNaN(filled)
       THEN Failed("rtp") /\ rtp_grid' = rtp_grid
       ELSE /\ Completed("rtp")
            /\ rtp_grid' = ReductionToPole(filled, fieldCalc[1].inclination,
                                            fieldCalc[1].declination)
    /\ UNCHANGED <<inputs, data, fieldCalc, coordinates, magField, region,
                   grid_full, grid, nanBranch, filled, gridReduced, reducedMag,
                   raster>>

\* lines 159-160
MaskReduced ==
    /\ pc = "remask"
    /\ gridReduced' = DistanceMask(coordinates, rtp_grid, region)
    /\ Completed("remask")
    /\ UNCHANGED <<inputs, data, fieldCalc, coordinates, magField, region,
                   grid_full, grid, nanBranch, filled, rtp_grid, reducedMag,
                   raster>>

\* lines 182-190; line 184 rebinds coordinates to the grid's own coordinates
Flip ==
    /\ pc = "flip"
    /\ reducedMag' = FlipUD(gridReduced)
    /\ coordinates' = << [c \in 1..Cols(gridReduced) |-> EastOf(region, c)],
                         [r \in 1..Rows(gridReduced) |-> NorthOf(region, r)] >>
    /\ Completed("flip")
    /\ UNCHANGED <<inputs, data, fieldCalc, magField, region, grid_full, grid,
                   nanBranch, filled, rtp_grid, gridReduced, raster>>

\* lines 192-202: rasterio.open raises when the file cannot be created
WriteRaster ==
    /\ pc = "write"
    /\ \E writable \in BOOLEAN :
          IF writable
          THEN /\ Completed("write")
               /\ raster' =
                    <<[height |-> Rows(reducedMag),
                       width |-> Cols(reducedMag),
                       transform |-> FromBounds(region[1], region[3], region[2],
                                                region[4], Cols(reducedMag),
                                                Rows(reducedMag)),
                       band |-> reducedMag]>>
          ELSE Failed("write") /\ raster' = raster
    /\ UNCHANGED <<inputs, data, fieldCalc, coordinates, magField, region,
                   grid_full, grid, nanBranch, filled, rtp_grid, gridReduced,
                   reducedMag>>

\* the state before line 71, the inputs apart
Start ==
    /\ pc = "load"
    /\ ran = <<>>
    /\ data = <<>>
    /\ fieldCalc = <<>>
    /\ coordinates = <<>>
    /\ magField = <<>>
    /\ region = <<>>
    /\ grid_full = <<>>
    /\ grid = <<>>
    /\ nanBranch = "none"
    /\ filled = <<>>
    /\ rtp_grid = <<>>
    /\ gridReduced = <<>>
    /\ reducedMag = <<>>
    /\ raster = <<>>

\* the rows of SurveyRows at the indices of I, in file order
Pick(I) == LET idx == Ascending(I) IN [k \in DOMAIN idx |-> SurveyRows[idx[k]]]

SurveyInputs ==
    {Pick(I) : I \in {J \in SUBSET DOMAIN SurveyRows : Cardinality(J) <= MaxSurvey}}

Init ==
    /\ csv \in {<<>>} \cup {<<rows>> : rows \in SurveyInputs}
    /\ tieLow \in BOOLEAN
    /\ Start

Next ==
    \/ ReadCsv
    \/ Calculate
    \/ BlockReduce
    \/ SplineFitGrid
    \/ MaskGrid
    \/ FillNaN
    \/ ReduceToPole
    \/ MaskReduced
    \/ Flip
    \/ WriteRaster

Spec == Init /\ [][Next]_vars

(***************************************************************************)
(* The block reducer on its own: the script up to line 103, over every CSV *)
(* of at most MaxRows rows of SampleSet.                                   *)
(***************************************************************************)
ReduceInputs == UNION {[1..n -> SampleSet] : n \in 0..MaxRows}

InitReduce ==
    /\ csv \in {<<>>} \cup {<<rows>> : rows \in ReduceInputs}
    /\ tieLow \in BOOLEAN
    /\ Start

NextReduce ==
    \/ ReadCsv
    \/ Calculate
    \/ BlockReduce

SpecReduce == InitReduce /\ [][NextReduce]_vars

(***************************************************************************)
(* Properties.                                                             *)
(***************************************************************************)
\* the (east, north) pairs of the rows of the CSV
SamplePoints == [i \in DOMAIN data |-> <<data[i].x, data[i].y>>]

\* the block-reduced points of the run (the script's own variable is
\* rebound at line 184)
ReducedPoints == ReduceCoordinates(data, tieLow)

\* the eastings of the grid's columns and the northings of its rows
EastLine == [c \in 1..GridLines(region[1], region[2]) |-> EastOf(region, c)] \o <<>>
NorthLine == [r \in 1..GridLines(region[3], region[4]) |-> NorthOf(region, r)] \o <<>>

\* whether (x, y) is at most 20 m from one of the points
Within20(x, y, points) ==
    \E i \in DOMAIN points :
        (x - points[i][1]) * (x - points[i][1])
          + (y - points[i][2]) * (y - points[i][2]) <= 400

\* m is the median of the values val(i), i in I (I finite, not empty): a
\* value with fewer than half of the values on either side, or the mean of
\* the two values that split the values in two halves
IsMedianOf(m, I, val(_)) ==
    LET n == Cardinality(I)
        below(v) == Cardinality({i \in I : val(i) < v})
        above(v) == Cardinality({i \in I : val(i) > v})
    IN  \/ /\ \E i \in I : val(i) = m
           /\ 2 * below(m) < n
           /\ 2 * above(m) < n
        \/ \E i, j \in I :
              /\ val(i) < val(j)
              /\ 2 * (below(val(i)) + Cardinality({k \in I : val(k) = val(i)})) = n
              /\ 2 * (above(val(j)) + Cardinality({k \in I : val(k) = val(j)})) = n
              /\ 2 * m = val(i) + val(j)

CellsOf(g) == {<<r, c>> : r \in DOMAIN g, c \in DOMAIN g[1]}

NaNCells(g) == {rc \in CellsOf(g) : g[rc[1]][rc[2]] = NaN}

\* C1: the raster is written only after the geomagnetic parameters were
\* obtained: while they are missing the script is at or before the request,
\* or has failed, and no raster exists.
C1_RasterOnlyAfterField ==
    fieldCalc = <<>> => /\ raster = <<>>
                        /\ reducedMag = <<>>
                        /\ pc \in {"load", "query", "failed"}

\* the request failed, after the CSV was read
C1_Witness == pc = "failed" /\ ran = <<"load">> /\ fieldCalc = <<>>

\* C2: the stages run once each in the fixed order (the steps completed are
\* always a prefix of Steps, and the script is at the step after them, done
\* after all of them, or failed), and a failed run takes no further step.
C2_SinglePass ==
    /\ [](/\ Len(ran) <= Len(Steps)
          /\ \A i \in DOMAIN ran : ran[i] = Steps[i]
          /\ pc = "done" => ran = Steps
          /\ pc = "failed" => Len(ran) < Len(Steps)
          /\ pc \notin {"done", "failed"} => pc = Steps[Len(ran) + 1]
          /\ raster # <<>> => pc = "done")
    /\ [][/\ pc \notin {"failed", "done"}
          /\ \/ pc' = "failed" /\ ran' = ran
             \/ ran' = Append(ran, pc)]_vars

\* a stage late in the pipeline failed: the transform refused its input
C2_Witness == pc = "failed" /\ Len(ran) = 6 /\ raster = <<>>

\* C3: block reduction returns one point and one value per occupied block,
\* never more than the rows it was given, and what it returns is determined
\* by the rows (and the nearest-centre rule of the build).
C3_ReduceSize ==
    pc = "grid" =>
        LET labels == BlockLabels(data, tieLow)
        IN  /\ Len(magField) <= Len(data)
            /\ Len(coordinates) = Len(magField)
            /\ Len(magField) = Cardinality({labels[i] : i \in DOMAIN data})
            /\ magField = ReduceValues(data, tieLow)
            /\ coordinates = ReduceCoordinates(data, tieLow)

\* three rows were reduced to two blocks
C3_Witness == pc = "grid" /\ Len(data) = 3 /\ Len(magField) = 2

PixelNorth(r) == NorthOf(region, Rows(raster[1].band) + 1 - r)

PixelCorner(t, col, row) ==
    << (t.c * t.a[2] + col * t.a[1]) * t.e[2],
       (t.f * t.e[2] + row * t.e[1]) * t.a[2],
       t.a[2] * t.e[2] >>

\* C7: the raster's width and height are the grid's numbers of columns and
\* rows, and its transform sends pixel (0, 0) to (least easting - 50,
\* greatest northing + 50) of the block-reduced points.
C7_ShapeAndOrigin ==
    raster # <<>> =>
        LET points == ReducedPoints
            west == SeqMin([i \in DOMAIN points |-> points[i][1]]) - 50
            north == SeqMax([i \in DOMAIN points |-> points[i][2]]) + 50
            at == PixelCorner(raster[1].transform, 0, 0)
        IN  /\ raster[1].width = Cols(gridReduced)
            /\ raster[1].height = Rows(gridReduced)
            /\ raster[1].width = Cols(grid_full)
            /\ raster[1].height = Rows(grid_full)
            /\ at[3] > 0
            /\ at[1] = west * at[3]
            /\ at[2] = north * at[3]

\* a raster that is wider than high
C7_Witness == raster # <<>> /\ raster[1].width > raster[1].height

\* C8 as stated: with a NaN in grid_full the fill branch runs and replaces
\* every NaN by the median of the other cells, keeping those; without one
\* the branch is not taken and the grid goes on unchanged; either way the
\* transform's input has no NaN when grid_full has a number.
C8_FillOnlyWhenNaN ==
    nanBranch # "none" =>
        LET nums == CellsOf(grid_full) \ NaNCells(grid_full)
        IN  /\ IF NaNCells(grid_full) # {}
               THEN /\ nanBranch = "fill"
                    /\ \A rc \in nums : filled[rc[1]][rc[2]] = grid_full[rc[1]][rc[2]]
                    /\ nums # {} =>
                          \A rc \in NaNCells(grid_full) :
                              IsMedianOf(filled[rc[1]][rc[2]], nums,
                                         LAMBDA q : grid_full[q[1]][q[2]])
               ELSE /\ nanBranch = "copy"
                    /\ filled = grid_full
            /\ nums # {} => NaNCells(filled) = {}

\* C9: the band written is gridReduced upside down: pixel (r, c) holds cell
\* (R + 1 - r, c) (rows and columns counted from 1), so that pixel row 1 is
\* the row of greatest northing; nothing else moves.
C9_BandIsFlippedGrid ==
    raster # <<>> =>
        LET band == raster[1].band
            R == Rows(gridReduced)
        IN  /\ Rows(band) = R
            /\ \A r \in DOMAIN band :
                  /\ Len(band[r]) = Cols(gridReduced)
                  /\ \A c \in DOMAIN band[r] : band[r][c] = gridReduced[R + 1 - r][c]
            /\ PixelNorth(1) = region[4]
            /\ \A r \in DOMAIN band : r > 1 => PixelNorth(r) < PixelNorth(r - 1)

\* a raster whose band differs from the grid it was flipped from, in rows
\* and along a row
C9_Witness ==
    /\ raster # <<>>
    /\ raster[1].band # gridReduced
    /\ \E r \in DOMAIN gridReduced : \E c \in DOMAIN gridReduced[r] :
          /\ gridReduced[r][c] # NaN
          /\ gridReduced[r][c] # gridReduced[r][Cols(gridReduced) + 1 - c]

\* C10 as stated: the pixel width (E - W) / C and the pixel height
\* (N - S) / R of the raster's transform are the grid spacing, 1 m.
C10_PixelIsGridSpacing ==
    raster # <<>> =>
        LET t == raster[1].transform
        IN  /\ t.a[1] = 1 * t.a[2]
            /\ -t.e[1] = 1 * t.e[2]

====
